---- MODULE Spec2Model ----
(***************************************************************************)
(* stock_chart.py: main() loads config.json, optionally filters the        *)
(* configured instruments by --ticker, and calls generate_chart_for_stock  *)
(* for each one in order.  generate_chart_for_stock fetches the daily bars,*)
(* normalizes the columns, adds one EMA column per window, builds the      *)
(* traces, computes the initial view and the log y-range, writes the HTML  *)
(* document and opens it in the browser.                                   *)
(*                                                                         *)
(* Dates are day numbers, timedelta(days=n) is n.  Floats are exact        *)
(* rationals [nan, num, den]; log10 is kept symbolic (LogOf) and compared  *)
(* through its monotonicity.  An uncaught exception leaves pc at the step  *)
(* that raised and sets exc: no action is enabled afterwards, which is the *)
(* interpreter unwinding through main().  The locals of a call (end_date,  *)
(* df, traces, x_range, y_range) stay readable after it returns and are    *)
(* reset when the next call begins.                                        *)
(***************************************************************************)
EXTENDS Integers, Sequences, FiniteSets, TLC

\* ------------------------------------------------------------------ bounds
MaxStocks == 2
MaxBars == 3
MaxWindows == 2

\* ------------------------------------------------------- program constants
\* df.loc[end_date - timedelta(days=180):] and update_xaxes(range=[...])
VIEW_DAYS == 180
\* y_max_value = High.max() * 1.1 ; y_min_value = Low.min() * 0.9  (tenths)
Y_MAX_TENTHS == 11
Y_MIN_TENTHS == 9

VARIABLES
    now,                \* the wall clock read by datetime.now()
    config_file,        \* config.json on disk: [status, stocks_to_analyze, chart_settings]
    args_ticker,        \* args.ticker (NoTicker when the flag is not given)
    pc,                 \* position in main() / generate_chart_for_stock()
    exc,                \* the uncaught exception, "none" while running
    stocks_to_process,  \* main's list after the optional filter
    idx,                \* number of generate_chart_for_stock calls started
    end_date,           \* local of the current call
    df,                 \* local of the current call: the data frame
    traces,             \* local: (candlestick_trace, ema_traces, volume_trace)
    x_range,            \* local: fig.update_xaxes(range=...)
    y_range,            \* local: [y_range_min, y_range_max]
    charts,             \* documents written under charts/, by ticker
    stdout              \* what has been reported to the operator

vars == <<now, config_file, args_ticker, pc, exc, stocks_to_process, idx,
          end_date, df, traces, x_range, y_range, charts, stdout>>

\* ------------------------------------------------------------- arithmetic
Min(a, b) == IF a <= b THEN a ELSE b

F(n, d) == [nan |-> FALSE, num |-> n, den |-> d]
NaN == [nan |-> TRUE, num |-> 0, den |-> 1]
FEq(a, b) == ~a.nan /\ ~b.nan /\ a.num * b.den = b.num * a.den
FLt(a, b) == ~a.nan /\ ~b.nan /\ a.num * b.den < b.num * a.den
\* x * (tenths / 10); NaN propagates
FMulTenths(x, tenths) ==
    IF x.nan THEN NaN ELSE F(x.num * tenths, x.den * 10)

RECURSIVE SeqMax(_)
SeqMax(s) ==
    IF Len(s) = 1 THEN s[1]
    ELSE LET m == SeqMax(Tail(s)) IN IF s[1] >= m THEN s[1] ELSE m
RECURSIVE SeqMin(_)
SeqMin(s) ==
    IF Len(s) = 1 THEN s[1]
    ELSE LET m == SeqMin(Tail(s)) IN IF s[1] <= m THEN s[1] ELSE m

\* pandas Series.max() / .min(): NaN on an empty series
SeriesMax(s) == IF Len(s) = 0 THEN NaN ELSE F(SeqMax(s), 1)
SeriesMin(s) == IF Len(s) = 0 THEN NaN ELSE F(SeqMin(s), 1)

\* math.log10: NaN for NaN, ValueError (math domain error) for x <= 0
Log10Raises(x) == ~x.nan /\ x.num <= 0
LogOf(x) == [nan |-> x.nan, log10_of |-> x]
LogFinite(l) == ~l.nan /\ l.log10_of.num > 0
LogLt(a, b) == LogFinite(a) /\ LogFinite(b) /\ FLt(a.log10_of, b.log10_of)

\* ------------------------------------------------------------ input pools
NoTicker == "(none)"
TickerPool == <<"1332.T", "7203.T", "9434.T", "9984.T">>
UnknownTicker == "0000.T"
WindowPool == <<2, 3, 5, 8>>
ColorPool == <<"orange", "cyan", "magenta", "white">>
RangePool == {180, 365}
NowPool == {20000}
\* age in days of a bar at the time of the run
AgePool == {1, 180, 181, 300}

Bar(o, h, l, c, v) == [Open |-> o, High |-> h, Low |-> l, Close |-> c, Volume |-> v]
\* a reference history: one bar with low > high, three well-formed bars, one
\* all-zero bar (upstream glitches pass through the pipeline unchecked)
ReferenceBars == << Bar(10, 5, 20, 10, 100), Bar(10, 12, 9, 10, 100), Bar(10, 13, 10, 12, 200),
                    Bar(11, 11, 11, 11, 0), Bar(0, 0, 0, 0, 0) >>

\* the strictly increasing sequences of n numbers of S
IncreasingSeqs(S, n) == { q \in [1..n -> S] : \A i \in 1..(n - 1) : q[i] < q[i + 1] }

\* ------------------------------------------------------------ data frames
\* A frame: index (dates), columns (labels, each a tuple of its levels), data
\* (one row of values per date, aligned with columns) and the EMA columns
\* added by the indicator loop (keyed by window: column f'EMA{window}').
NoFrame == [index |-> <<>>, columns |-> <<>>, data |-> <<>>, ema |-> <<>>]

\* DataFrame.empty: any axis of length 0
DfEmpty(f) == Len(f.index) = 0 \/ Len(f.columns) = 0

\* str.lower() on the labels a fetch can return
LabelLower(c) ==
    CASE c = "Open" -> "open" [] c = "OPEN" -> "open"
      [] c = "High" -> "high"
      [] c = "Low" -> "low"
      [] c = "Close" -> "close"
      [] c = "Volume" -> "volume" [] c = "VOLUME" -> "volume"
      [] c = "Adj Close" -> "adj close"
      [] OTHER -> c

\* column_mapping and its .get(c.lower(), c)
column_mapping ==
    [k \in {"open", "high", "low", "close", "volume"} |->
        CASE k = "open" -> "Open" [] k = "high" -> "High" [] k = "low" -> "Low"
          [] k = "close" -> "Close" [] k = "volume" -> "Volume"]
MappingGet(c) ==
    IF LabelLower(c) \in DOMAIN column_mapping THEN column_mapping[LabelLower(c)] ELSE c

CanonicalColumns == <<"Open", "High", "Low", "Close", "Volume">>

NLevels(cols) == IF Len(cols) = 0 THEN 1 ELSE Len(cols[1])

\* df.columns.droplevel(1): pandas raises IndexError ("Too many levels: Index has
\* only 1 level, not 2") on a flat Index; on a two-level MultiIndex it keeps level 0.
DroplevelException(cols) == IF NLevels(cols) < 2 THEN "IndexError" ELSE "none"
Droplevel1(cols) == [j \in 1..Len(cols) |-> <<cols[j][1]>>]
\* except (AttributeError, KeyError): pass
FlattenCaught == {"AttributeError", "KeyError"}

\* df.rename(columns={c: column_mapping.get(c.lower(), c) for c in df.columns})
RenameColumns(cols) == [j \in 1..Len(cols) |-> <<MappingGet(cols[j][1])>>]

\* positions of the columns labelled name, in column order
RECURSIVE IndicesOf(_, _, _)
IndicesOf(cols, name, j) ==
    IF j > Len(cols) THEN <<>>
    ELSE (IF cols[j] = <<name>> THEN <<j>> ELSE <<>>) \o IndicesOf(cols, name, j + 1)
RECURSIVE Picks(_, _)
Picks(cols, names) ==
    IF Len(names) = 0 THEN <<>>
    ELSE IndicesOf(cols, names[1], 1) \o Picks(cols, Tail(names))

\* df[[...names...]]: KeyError when a name labels no column
SelectRaises(cols, names) ==
    \E i \in 1..Len(names) : Len(IndicesOf(cols, names[i], 1)) = 0
SelectColumns(f, cols, names) ==
    LET p == Picks(cols, names) IN
    [index |-> f.index,
     columns |-> [k \in 1..Len(p) |-> cols[p[k]]],
     data |-> [i \in 1..Len(f.data) |-> [k \in 1..Len(p) |-> f.data[i][p[k]]]],
     ema |-> f.ema]

\* df['name'] on a normalized frame
Column(f, name) ==
    LET j == CHOOSE k \in 1..Len(f.columns) : f.columns[k] = <<name>> IN
    [i \in 1..Len(f.data) |-> f.data[i][j]]

\* the same recurrence with alpha = 1/span
RECURSIVE EwmMeanAlphaInverseSpan(_, _)
EwmMeanAlphaInverseSpan(x, span) ==
    IF Len(x) = 0 THEN <<>>
    ELSE IF Len(x) = 1 THEN <<F(x[1], 1)>>
    ELSE LET prev == EwmMeanAlphaInverseSpan(SubSeq(x, 1, Len(x) - 1), span)
             w == prev[Len(prev)]
             cur == x[Len(x)]
         IN Append(prev, F((span - 1) * w.num + cur * w.den, span * w.den))

\* Series.ewm(span=span, adjust=False).mean(): alpha = 2/(span+1); the first value
\* is the first observation, then weighted = ((1-alpha)*weighted + alpha*cur) / 1
RECURSIVE EwmMean(_, _)
EwmMean(x, span) ==
    IF Len(x) = 0 THEN <<>>
    ELSE IF Len(x) = 1 THEN <<F(x[1], 1)>>
    ELSE LET prev == EwmMean(SubSeq(x, 1, Len(x) - 1), span)
             w == prev[Len(prev)]
             cur == x[Len(x)]
         IN Append(prev, F((span - 1) * w.num + 2 * cur * w.den, (span + 1) * w.den))

\* for window in ema_windows: df[f'EMA{window}'] = df['Close'].ewm(...).mean()
WithEMA(f, ema_windows) ==
    [f EXCEPT !.ema = [w \in {ema_windows[i] : i \in 1..Len(ema_windows)} |->
                          EwmMean(Column(f, "Close"), w)]]

\* one pair per window, a default color where the color list has run out
ZipPadColors(a, b) ==
    [i \in 1..Len(a) |-> <<a[i], IF i <= Len(b) THEN b[i] ELSE "black">>]

\* zip(ema_windows, ema_colors)
Zip(a, b) == [i \in 1..Min(Len(a), Len(b)) |-> <<a[i], b[i]>>]

\* the emptiness guard inverted
create_chart_traces_guard_inverted(data, ema_windows, ema_colors) ==
    IF ~DfEmpty(data)
    THEN [candlestick_trace |-> "None", ema_traces |-> <<>>, volume_trace |-> "None"]
    ELSE [candlestick_trace |-> "Candlestick", ema_traces |-> <<>>, volume_trace |-> "Bar"]

NoTraces == [candlestick_trace |-> "unset", ema_traces |-> <<>>, volume_trace |-> "unset"]
create_chart_traces(data, ema_windows, ema_colors) ==
    IF DfEmpty(data)
    THEN [candlestick_trace |-> "None", ema_traces |-> <<>>, volume_trace |-> "None"]
    ELSE LET z == Zip(ema_windows, ema_colors) IN
         [candlestick_trace |-> "Candlestick",
          ema_traces |-> [i \in 1..Len(z) |->
                            [name |-> z[i][1], color |-> z[i][2], y |-> data.ema[z[i][1]]]],
          volume_trace |-> "Bar"]

\* all([candlestick_trace, ema_traces, volume_trace]): None and [] are falsy
AllTraces(t) ==
    /\ t.candlestick_trace \notin {"None", "unset"}
    /\ Len(t.ema_traces) > 0
    /\ t.volume_trace \notin {"None", "unset"}

\* the view start taken from the fetch range
ViewStartFromFetchRange(e, settings) == e - settings.data_range_days

\* end_date - timedelta(days=180)
ViewStart(e, settings) == e - VIEW_DAYS
\* df.loc[start:] on the date index (label slice, start included)
RowsFrom(f, start) ==
    LET keep == SelectSeq([i \in 1..Len(f.index) |-> i], LAMBDA i : f.index[i] >= start) IN
    [index |-> [k \in 1..Len(keep) |-> f.index[keep[k]]],
     columns |-> f.columns,
     data |-> [k \in 1..Len(keep) |-> f.data[keep[k]]],
     ema |-> f.ema]
InitialView(f, e, settings) == RowsFrom(f, ViewStart(e, settings))

\* the low bound scaled by the high bound's factor
YMinValueHighFactor(view) == FMulTenths(SeriesMin(Column(view, "Low")), Y_MAX_TENTHS)

YMaxValue(view) == FMulTenths(SeriesMax(Column(view, "High")), Y_MAX_TENTHS)
YMinValue(view) == FMulTenths(SeriesMin(Column(view, "Low")), Y_MIN_TENTHS)


\* --------------------------------------------------- the external sources
\* the dates of n bars, oldest first, none older than `days`
DateSeqs(e, days, n) == IncreasingSeqs({e - a : a \in {x \in AgePool : x <= days}}, n)
\* n bars of the reference history, in its order
BarSeqs(n) ==
    { [i \in 1..n |-> ReferenceBars[q[i]]] : q \in IncreasingSeqs(1..Len(ReferenceBars), n) }

\* the column layouts yf.download returns across versions: (Price, Ticker)
\* MultiIndex or flat, in the provider's letter case, with or without extras
Shapes(t) ==
    { <<<<"Close", t>>, <<"High", t>>, <<"Low", t>>, <<"Open", t>>, <<"Volume", t>>>>,
      <<<<"Adj Close", t>>, <<"OPEN", t>>, <<"High", t>>, <<"low", t>>, <<"Close", t>>,
        <<"VOLUME", t>>>>,
      <<<<"Close", t>>, <<"High", t>>, <<"Low", t>>, <<"Open", t>>>>,
      <<<<"Open">>, <<"High">>, <<"Low">>, <<"Close">>, <<"Volume">>>>,
      <<<<"OPEN">>, <<"High">>, <<"low">>, <<"Close">>, <<"VOLUME">>>> }

\* the value a provider column carries for one bar
FieldValue(bar, label) ==
    LET k == LabelLower(label) IN
    CASE k = "open" -> bar.Open [] k = "high" -> bar.High [] k = "low" -> bar.Low
      [] k = "close" -> bar.Close [] k = "volume" -> bar.Volume
      [] OTHER -> bar.Close

RawFrame(cols, dates, bars) ==
    [index |-> dates,
     columns |-> cols,
     data |-> [i \in 1..Len(dates) |-> [j \in 1..Len(cols) |-> FieldValue(bars[i], cols[j][1])]],
     ema |-> <<>>]

\* yf.download(ticker, start=end_date - timedelta(days=data_range_days), end=end_date)
FetchResults(t, e, days) ==
    {NoFrame} \cup
    UNION { { RawFrame(cols, d, b) :
                cols \in Shapes(t), d \in DateSeqs(e, days, n), b \in BarSeqs(n) } :
            n \in 1..MaxBars }

StockInfo(t) == [ticker |-> t]
ChartSettings(days, w, c) == [data_range_days |-> days, ema_windows |-> w, ema_colors |-> c]
NoSettings == ChartSettings(0, <<>>, <<>>)

ConfigFiles ==
    { [status |-> st, stocks_to_analyze |-> <<>>, chart_settings |-> NoSettings] :
        st \in {"absent", "malformed"} }
    \cup
    { [status |-> "ok",
       stocks_to_analyze |-> [i \in 1..k |-> StockInfo(TickerPool[i])],
       chart_settings |-> ChartSettings(days, SubSeq(WindowPool, 1, nw), SubSeq(ColorPool, 1, nc))] :
        k \in 0..MaxStocks, days \in RangePool, nw \in 0..MaxWindows, nc \in 0..MaxWindows }

\* ------------------------------------------------------------------ state
Say(kind, t) == stdout \cup {[kind |-> kind, ticker |-> t]}

Init ==
    /\ now \in NowPool
    /\ config_file \in ConfigFiles
    /\ args_ticker \in {NoTicker, TickerPool[1], UnknownTicker}
    /\ pc = "load_config"
    /\ exc = "none"
    /\ stocks_to_process = <<>>
    /\ idx = 0
    /\ end_date = -1
    /\ df = NoFrame
    /\ traces = NoTraces
    /\ x_range = <<>>
    /\ y_range = <<>>
    /\ charts = {}
    /\ stdout = {}

Running(at) == pc = at /\ exc = "none"
stock == stocks_to_process[idx]
chart_settings == config_file.chart_settings

\* ------------------------------------------------------------------ main()
\* with open(config_path) ... json.load(f), and its two except clauses
LoadConfig ==
    /\ Running("load_config")
    /\ IF config_file.status = "absent"
       THEN /\ stdout' = Say("ConfigNotFound", "")
            /\ pc' = "done"
       ELSE IF config_file.status = "malformed"
       THEN /\ stdout' = Say("ConfigMalformed", "")
            /\ pc' = "done"
       ELSE /\ stdout' = stdout
            /\ pc' = "filter"
    /\ UNCHANGED <<now, config_file, args_ticker, exc, stocks_to_process, idx,
                   end_date, df, traces, x_range, y_range, charts>>

\* a filter that falls back to the whole list when nothing matches
FilterStocksFallback(stocks, t) ==
    IF \E k \in 1..Len(stocks) : stocks[k].ticker = t
    THEN SelectSeq(stocks, LAMBDA s : s.ticker = t)
    ELSE stocks

\* [s for s in stocks_to_process if s['ticker'] == args.ticker]
FilterStocks(stocks, t) == SelectSeq(stocks, LAMBDA s : s.ticker = t)

\* stocks_to_process = config.get('stocks_to_analyze', []) and the --ticker filter
Filter ==
    /\ Running("filter")
    /\ LET all == config_file.stocks_to_analyze
           kept == IF args_ticker # NoTicker THEN FilterStocks(all, args_ticker) ELSE all
       IN /\ stocks_to_process' = kept
          /\ IF args_ticker # NoTicker /\ Len(kept) = 0
             THEN /\ stdout' = Say("FilterNotFound", args_ticker)
                  /\ pc' = "done"
             ELSE /\ stdout' = stdout
                  /\ pc' = "loop"
    /\ UNCHANGED <<now, config_file, args_ticker, exc, idx,
                   end_date, df, traces, x_range, y_range, charts>>

\* for stock in stocks_to_process: generate_chart_for_stock(stock, ...)
LoopCall ==
    /\ Running("loop")
    /\ idx < Len(stocks_to_process)
    /\ idx' = idx + 1
    /\ end_date' = -1
    /\ df' = NoFrame
    /\ traces' = NoTraces
    /\ x_range' = <<>>
    /\ y_range' = <<>>
    /\ pc' = "fetch"
    /\ UNCHANGED <<now, config_file, args_ticker, exc, stocks_to_process, charts, stdout>>

LoopExit ==
    /\ Running("loop")
    /\ idx >= Len(stocks_to_process)
    /\ pc' = "done"
    /\ UNCHANGED <<now, config_file, args_ticker, exc, stocks_to_process, idx,
                   end_date, df, traces, x_range, y_range, charts, stdout>>


\* ------------------------------------------------ generate_chart_for_stock
\* end_date = now(); df = yf.download(...); if df.empty: report and return
Fetch ==
    /\ Running("fetch")
    /\ end_date' = now
    /\ \E raw \in FetchResults(stock.ticker, now, chart_settings.data_range_days) :
        /\ df' = raw
        /\ IF DfEmpty(raw)
           THEN /\ stdout' = Say("Fetching", stock.ticker) \cup
                             {[kind |-> "FetchFailed", ticker |-> stock.ticker]}
                /\ pc' = "loop"
           ELSE /\ stdout' = Say("Fetching", stock.ticker)
                /\ pc' = "normalize"
    /\ UNCHANGED <<now, config_file, args_ticker, exc, stocks_to_process, idx,
                   traces, x_range, y_range, charts>>

\* droplevel(1) under try/except, rename to the canonical labels, select the five
Normalize ==
    /\ Running("normalize")
    /\ LET e == DroplevelException(df.columns)
           flat == IF e = "none" THEN Droplevel1(df.columns) ELSE df.columns
       IN IF e # "none" /\ e \notin FlattenCaught
          THEN /\ exc' = e
               /\ UNCHANGED <<df, pc>>
          ELSE LET renamed == RenameColumns(flat) IN
               IF SelectRaises(renamed, CanonicalColumns)
               THEN /\ exc' = "KeyError"
                    /\ UNCHANGED <<df, pc>>
               ELSE /\ df' = SelectColumns(df, renamed, CanonicalColumns)
                    /\ pc' = "ema"
                    /\ exc' = exc
    /\ UNCHANGED <<now, config_file, args_ticker, stocks_to_process, idx,
                   end_date, traces, x_range, y_range, charts, stdout>>

\* for window in ema_windows: df[f'EMA{window}'] = ...
Indicators ==
    /\ Running("ema")
    /\ df' = WithEMA(df, chart_settings.ema_windows)
    /\ pc' = "traces"
    /\ UNCHANGED <<now, config_file, args_ticker, exc, stocks_to_process, idx,
                   end_date, traces, x_range, y_range, charts, stdout>>

\* create_chart_traces(...) and the if all([...]) around the rest of the function
BuildTraces ==
    /\ Running("traces")
    /\ LET t == create_chart_traces(df, chart_settings.ema_windows, chart_settings.ema_colors)
       IN /\ traces' = t
          /\ pc' = IF AllTraces(t) THEN "layout" ELSE "loop"
    /\ UNCHANGED <<now, config_file, args_ticker, exc, stocks_to_process, idx,
                   end_date, df, x_range, y_range, charts, stdout>>

\* df_initial_view, y_max_value, y_min_value, math.log10 of both, update_xaxes
Layout ==
    /\ Running("layout")
    /\ LET view == InitialView(df, end_date, chart_settings)
           y_max_value == YMaxValue(view)
           y_min_value == YMinValue(view)
       IN IF Log10Raises(y_min_value) \/ Log10Raises(y_max_value)
          THEN /\ exc' = "ValueError"
               /\ UNCHANGED <<pc, x_range, y_range>>
          ELSE /\ y_range' = <<LogOf(y_min_value), LogOf(y_max_value)>>
               /\ x_range' = <<ViewStart(end_date, chart_settings), end_date>>
               /\ pc' = "write"
               /\ exc' = exc
    /\ UNCHANGED <<now, config_file, args_ticker, stocks_to_process, idx,
                   end_date, df, traces, charts, stdout>>

\* fig.write_html(charts/{ticker}_{name}_chart.html)
WriteHtml ==
    /\ Running("write")
    /\ charts' = charts \cup {stock.ticker}
    /\ pc' = "open"
    /\ UNCHANGED <<now, config_file, args_ticker, exc, stocks_to_process, idx,
                   end_date, df, traces, x_range, y_range, stdout>>

\* webbrowser.open under try / except Exception: both branches report and return
OpenBrowser ==
    /\ Running("open")
    /\ \E opened \in BOOLEAN :
        stdout' = Say(IF opened THEN "SavedAndOpened" ELSE "OpenFailed", stock.ticker)
    /\ pc' = "loop"
    /\ UNCHANGED <<now, config_file, args_ticker, exc, stocks_to_process, idx,
                   end_date, df, traces, x_range, y_range, charts>>

Next ==
    \/ LoadConfig
    \/ Filter
    \/ LoopCall
    \/ LoopExit
    \/ Fetch
    \/ Normalize
    \/ Indicators
    \/ BuildTraces
    \/ Layout
    \/ WriteHtml
    \/ OpenBrowser

Spec == Init /\ [][Next]_vars


\* ----------------------------------------------------- shared vocabulary
Ticker(i) == stocks_to_process[i].ticker
Reported(kind, t) == [kind |-> kind, ticker |-> t] \in stdout
Terminated == pc = "done" \/ exc # "none"
\* call i of generate_chart_for_stock has returned to main's loop
Returned(i) == i < idx \/ (i = idx /\ pc \in {"loop", "done"} /\ exc = "none")
\* the frame of the current (or last) call has been through the normalizer
PastNormalize == idx >= 1 /\ pc \in {"ema", "traces", "layout", "write", "open", "loop", "done"}
                         /\ ~DfEmpty(df)
PastIndicators == PastNormalize /\ pc # "ema"
\* rows of the frame dated inside the closed interval [lo, hi]
RowsWithin(lo, hi) == {i \in 1..Len(df.index) : lo <= df.index[i] /\ df.index[i] <= hi}
Lows(rows) == {Column(df, "Low")[i] : i \in rows}
Highs(rows) == {Column(df, "High")[i] : i \in rows}

\* C1: whatever listed per-instrument failure happens (empty fetch, a canonical
\* column missing, empty viewport subset, viewer-launch failure), the run ends
\* only after generate_chart_for_stock was called for every instrument.
C1_BatchSurvivesInstrumentFailures ==
    (Terminated /\ exc \in {"none", "KeyError"}) => idx = Len(stocks_to_process)

\* C2: an instrument whose fetch is empty is reported and gets no document; the
\* run goes on to the next instrument, and that one, when its fetch is non-empty
\* and its pipeline returns with windows and colors configured, has a document.
C2_EmptyFetchSkippedNextProcessed ==
    /\ (idx >= 1 /\ Returned(idx) /\ DfEmpty(df)) =>
          (Reported("FetchFailed", Ticker(idx)) /\ Ticker(idx) \notin charts)
    /\ \A i \in 1..Len(stocks_to_process) :
        (Returned(i) /\ Reported("FetchFailed", Ticker(i))) =>
            /\ Ticker(i) \notin charts
            /\ (Terminated /\ i < Len(stocks_to_process)) => idx > i
            /\ ( /\ idx = i + 1
                 /\ Returned(i + 1)
                 /\ ~DfEmpty(df)
                 /\ Len(chart_settings.ema_windows) > 0
                 /\ Len(chart_settings.ema_colors) > 0 ) => Ticker(i + 1) \in charts

C2_Witness ==
    /\ idx = 2 /\ pc = "done"
    /\ Reported("FetchFailed", Ticker(1)) /\ Ticker(1) \notin charts
    /\ Ticker(2) \in charts

\* C3: with the configuration absent or malformed, or a --ticker that matches no
\* configured instrument, the error is reported, generate_chart_for_stock is
\* never called and no document exists.
C3_RunLevelFailureStopsBeforeInstruments ==
    LET bad_config == config_file.status # "ok"
        bad_filter == /\ config_file.status = "ok"
                      /\ args_ticker # NoTicker
                      /\ \A k \in 1..Len(config_file.stocks_to_analyze) :
                            config_file.stocks_to_analyze[k].ticker # args_ticker
    IN (bad_config \/ bad_filter) =>
        /\ idx = 0
        /\ charts = {}
        /\ pc \in {"load_config", "filter", "done"}
        /\ exc = "none"
        /\ pc = "done" =>
            \/ config_file.status = "absent" /\ Reported("ConfigNotFound", "")
            \/ config_file.status = "malformed" /\ Reported("ConfigMalformed", "")
            \/ bad_filter /\ Reported("FilterNotFound", args_ticker)

C3_Witness ==
    /\ pc = "done"
    /\ Len(config_file.stocks_to_analyze) > 0
    /\ Reported("FilterNotFound", args_ticker)

\* C4: every instrument whose call returned without a document has a reason
\* reported to the operator.
C4_NoSilentSkip ==
    \A i \in 1..idx :
        (Returned(i) /\ Ticker(i) \notin charts) =>
            \E kind \in {"FetchFailed", "OpenFailed"} : Reported(kind, Ticker(i))

\* C5: when no bar of the series is dated inside the viewport, the instrument is
\* skipped: no y-range is computed and no document is written for it.
C5_EmptyViewportSkipsInstrument ==
    ( /\ PastIndicators
      /\ pc \in {"open", "loop", "done"}
      /\ RowsWithin(end_date - VIEW_DAYS, end_date) = {} ) =>
        (y_range = <<>> /\ stock.ticker \notin charts)


\* the least / greatest element of a non-empty set of numbers
Least(S) == CHOOSE m \in S : \A x \in S : m <= x
Greatest(S) == CHOOSE m \in S : \A x \in S : m >= x
\* the y-range is log10(0.9 * least low), log10(1.1 * greatest high) over rows
BoundsOver(rows) ==
    IF rows = {}
    THEN y_range[1].nan /\ y_range[2].nan
    ELSE /\ FEq(y_range[1].log10_of, F(9 * Least(Lows(rows)), 10))
         /\ FEq(y_range[2].log10_of, F(11 * Greatest(Highs(rows)), 10))

\* C6 (as stated): the viewport ends at the last bar's date and is exactly the
\* configured number of days wide; the y-bounds come from the bars inside it.
C6_ViewportConfiguredEndingAtLastBar ==
    x_range # <<>> =>
        /\ x_range[2] = df.index[Len(df.index)]
        /\ x_range[2] - x_range[1] = chart_settings.data_range_days
        /\ BoundsOver(RowsWithin(x_range[1], x_range[2]))

\* C6 (amended): the viewport ends at end_date, the time of the run, and starts
\* exactly 180 days before it whatever data_range_days is configured; the
\* y-bounds come from the bars dated inside that same interval.
C6_ViewportIs180DaysEndingAtRunTime ==
    x_range # <<>> =>
        /\ x_range[2] = end_date
        /\ end_date = now
        /\ x_range[2] - x_range[1] = 180
        /\ BoundsOver(RowsWithin(x_range[1], x_range[2]))

C6_Witness ==
    /\ pc = "write"
    /\ x_range # <<>>
    /\ chart_settings.data_range_days # 180
    /\ df.index[Len(df.index)] < end_date
    /\ Cardinality(RowsWithin(x_range[1], x_range[2])) = 2
    /\ Len(df.index) = 3

WellFormedRows(rows) ==
    \A i \in rows : 0 < Column(df, "Low")[i] /\ Column(df, "Low")[i] <= Column(df, "High")[i]

\* C7 (as stated): for any bars and a non-empty viewport subset the computed
\* y-bounds are finite and y_min_bound < y_max_bound.
C7_BoundsOrderedForAnyBars ==
    (y_range # <<>> /\ RowsWithin(end_date - VIEW_DAYS, end_date) # {}) =>
        LogLt(y_range[1], y_range[2])

\* C7 (amended): when every bar of the non-empty viewport subset has
\* 0 < low <= high, the bounds are computed (log10 does not fail), are finite,
\* equal log10(0.9 * min low) and log10(1.1 * max high), and min < max.
C7_BoundsOrderedForWellFormedBars ==
    LET rows == RowsWithin(end_date - VIEW_DAYS, end_date) IN
    (PastIndicators /\ AllTraces(traces) /\ rows # {} /\ WellFormedRows(rows)) =>
        /\ exc = "none"
        /\ y_range # <<>> =>
            /\ LogFinite(y_range[1]) /\ LogFinite(y_range[2])
            /\ LogLt(y_range[1], y_range[2])
            /\ BoundsOver(rows)

C7_Witness ==
    LET rows == RowsWithin(end_date - VIEW_DAYS, end_date) IN
    /\ y_range # <<>>
    /\ Cardinality(rows) = 2 /\ WellFormedRows(rows)
    /\ \E i \in 1..Len(df.index) : i \notin rows /\ Column(df, "Low")[i] > Column(df, "High")[i]
    /\ LogLt(y_range[1], y_range[2])

\* C8: with k windows and m < k colors, exactly m EMA overlays are built, for
\* the first m windows in order, each with the color at its own position and
\* the EMA series of its own window.
C8_ShorterColorListTruncates ==
    LET w == chart_settings.ema_windows
        c == chart_settings.ema_colors
    IN (traces.candlestick_trace = "Candlestick" /\ Len(c) < Len(w)) =>
        /\ Len(traces.ema_traces) = Len(c)
        /\ \A i \in 1..Len(traces.ema_traces) :
            /\ traces.ema_traces[i].name = w[i]
            /\ traces.ema_traces[i].color = c[i]
            /\ traces.ema_traces[i].y = df.ema[w[i]]

C8_Witness ==
    /\ pc = "write"
    /\ Len(chart_settings.ema_windows) = 2
    /\ Len(chart_settings.ema_colors) = 1
    /\ Len(traces.ema_traces) = 1
    /\ Len(df.index) > 1

\* C9: after the indicator loop every configured window W has an EMA series as
\* long as the bar series, with EMA[1] = Close[1] and, from the second bar on,
\* (W+1) * EMA[t] = 2 * Close[t] + (W-1) * EMA[t-1]; closes 10, 12, 11 with
\* span 2 give 10, 34/3, 100/9.
C9_EmaRecurrence ==
    PastIndicators =>
        LET close == Column(df, "Close")
            w == chart_settings.ema_windows
        IN /\ DOMAIN df.ema = {w[i] : i \in 1..Len(w)}
           /\ \A W \in DOMAIN df.ema :
                LET e == df.ema[W] IN
                /\ Len(e) = Len(df.index)
                /\ Len(e) = Len(close)
                /\ FEq(e[1], F(close[1], 1))
                /\ \A t \in 2..Len(e) :
                     (W + 1) * e[t].num * e[t - 1].den
                       = (2 * close[t] * e[t - 1].den + (W - 1) * e[t - 1].num) * e[t].den
                /\ (close = <<10, 12, 11>> /\ W = 2) =>
                     /\ FEq(e[1], F(10, 1)) /\ FEq(e[2], F(34, 3)) /\ FEq(e[3], F(100, 9))

C9_Witness ==
    /\ PastIndicators
    /\ Column(df, "Close") = <<10, 12, 11>>
    /\ DOMAIN df.ema = {2, 3}
    /\ FEq(df.ema[2][3], F(100, 9))

HasFiveFields(f) ==
    \A k \in DOMAIN column_mapping :
        \E j \in 1..Len(f.columns) : LabelLower(f.columns[j][1]) = k

\* C10: a fetched frame that carries the five fields, flat or with a second
\* column level and in any letter case, normalizes (without failing) to exactly
\* the columns Open, High, Low, Close, Volume in that order.
C10_NormalizerShapeInsensitive ==
    /\ (idx >= 1 /\ pc = "normalize" /\ HasFiveFields(df)) => exc = "none"
    /\ PastNormalize =>
         df.columns = [j \in 1..Len(CanonicalColumns) |-> <<CanonicalColumns[j]>>]

====
